---- MODULE Spec2Model ----
(***************************************************************************)
(* envato_scrape: the crawl / cache / report pipeline.                     *)
(*                                                                         *)
(*   Spec       the command-line process of envato_scrape/__init__.py:    *)
(*              its own Cache (loaded at import, saved by atexit), the    *)
(*              API client, search-crawl and category-sale-count.         *)
(*   CacheSpec  the Cache of envato_scrape/cache.py (dirty flag,          *)
(*              maybe_save) over the records of envato_scrape/product.py. *)
(*   ApiSpec    one call of make_envato_api_call against every response;  *)
(*              ApiFairSpec adds that requests.get keeps returning.       *)
(*   ReportSpec the inspect commands on the caches crawls leave behind.   *)
(*   RecordSpec from_dict / serialize of the records on partial maps.     *)
(*                                                                         *)
(* A Python dict is a sequence of entries [k, v] with distinct keys, in    *)
(* insertion order.  A map received from outside (an API match, a pickled  *)
(* entry) is a TLA+ record whose DOMAIN is the set of keys it has.         *)
(***************************************************************************)
EXTENDS Integers, Sequences, FiniteSets, TLC

VARIABLES
    file,                \* content of .envato_scrape_cache.pickle
    categories,          \* Cache.categories : site -> path -> Category
    products,            \* Cache.products   : id -> Product
    dirty,               \* Cache.dirty (cache.py)
    pc,                  \* where the process is
    args,                \* the command line of this process
    categories_to_crawl, \* _crawl: categories_to_crawl
    pages_to_crawl,      \* _crawl: pages_to_crawl
    ci, pi,              \* _crawl: positions of the two for loops
    total_products,      \* _crawl: total_products
    req,                 \* make_envato_api_call: endpoint and params of the call
    sent,                \* the requests put on the wire by the current call
    resp,                \* the responses received by the current call
    slept,               \* the time.sleep durations of the current call
    ret,                 \* value returned by make_envato_api_call
    exit_code,           \* exit status of the process (-1 while running)
    out,                 \* rows echoed by category-sale-count
    hist                 \* history: what the process did (not program state)

vars == <<file, categories, products, dirty, pc, args, categories_to_crawl,
          pages_to_crawl, ci, pi, total_products, req, sent, resp, slept, ret,
          exit_code, out, hist>>

(***************************************************************************)
(* Bounds of the model.                                                    *)
(***************************************************************************)
\* range(1, 61) of _crawl, scaled: an all-pages crawl asks for pages 1..LastPage
LastPage == 3
\* most 429 responses one process receives
MaxRetries == 2
\* most add_category / add_product calls of one CacheSpec run
MaxOps == 2
\* most products in the cache a report is made from
MaxProducts == 3

(***************************************************************************)
(* Python dict, insertion ordered.                                         *)
(***************************************************************************)
EmptyDict == <<>>

DictKeys(d) == {d[i].k : i \in 1..Len(d)}

DictHas(d, key) == \E i \in 1..Len(d) : d[i].k = key

DictIndex(d, key) == CHOOSE i \in 1..Len(d) : d[i].k = key

DictGet(d, key) == d[DictIndex(d, key)].v

\* d[key] = value: an existing key keeps its position, a new key is appended
DictSet(d, key, value) ==
    IF DictHas(d, key)
    THEN [d EXCEPT ![DictIndex(d, key)] = [k |-> key, v |-> value]]
    ELSE Append(d, [k |-> key, v |-> value])

DictValues(d) == [i \in 1..Len(d) |-> d[i].v]

\* number of entries stored under key
DictCount(d, key) == Cardinality({i \in 1..Len(d) : d[i].k = key})

\* dict == dict of Python: same keys, same values, whatever the order
DictEq(d, e) ==
    /\ DictKeys(d) = DictKeys(e)
    /\ Len(d) = Len(e)
    /\ \A key \in DictKeys(d) : DictGet(d, key) = DictGet(e, key)

\* data.get(key, default) on a received map
Get(data, key, default) == IF key \in DOMAIN data THEN data[key] ELSE default

\* the map {}
NoKeys == [x \in {} |-> 0]

\* Optional[...] : <<>> is None, <<x>> is x
None == <<>>
Some(x) == <<x>>

(***************************************************************************)
(* Domain model: product.py (Rating, Length, Preview, Product are the same *)
(* text in __init__.py; floats are modelled by integers).                  *)
(***************************************************************************)
Rating_from_dict(data) ==
    [rating |-> Get(data, "rating", 0), count |-> Get(data, "count", 0)]

Rating_serialize(self) == [rating |-> self.rating, count |-> self.count]

Length_from_dict(data) ==
    [hours   |-> Get(data, "hours", 0),
     minutes |-> Get(data, "minutes", 0),
     seconds |-> Get(data, "seconds", 0)]

Length_serialize(self) ==
    [hours |-> self.hours, minutes |-> self.minutes, seconds |-> self.seconds]

Preview_from_dict(data) ==
    [icon_url                 |-> Get(data, "icon_url", ""),
     mp3_url                  |-> Get(data, "mp3_url", ""),
     mp3_preview_waveform_url |-> Get(data, "mp3_preview_waveform_url", ""),
     mp3_preview_download_url |-> Get(data, "mp3_preview_download_url", ""),
     mp3_id                   |-> Get(data, "mp3_id", 0),
     length                   |-> Length_from_dict(Get(data, "length", NoKeys))]

Preview_serialize(self) ==
    [icon_url                 |-> self.icon_url,
     mp3_url                  |-> self.mp3_url,
     mp3_preview_waveform_url |-> self.mp3_preview_waveform_url,
     mp3_preview_download_url |-> self.mp3_preview_download_url,
     mp3_id                   |-> self.mp3_id,
     length                   |-> Length_serialize(self.length)]

Product_from_dict(data) ==
    [id                 |-> Get(data, "id", 0),
     name               |-> Get(data, "name", ""),
     description        |-> Get(data, "description", ""),
     description_html   |-> Get(data, "description_html", ""),
     site               |-> Get(data, "site", ""),
     classification     |-> Get(data, "classification", ""),
     classification_url |-> Get(data, "classification_url", ""),
     price_cents        |-> Get(data, "price_cents", 0),
     number_of_sales    |-> Get(data, "number_of_sales", 0),
     author_username    |-> Get(data, "author_username", ""),
     author_url         |-> Get(data, "author_url", ""),
     author_image       |-> Get(data, "author_image", ""),
     url                |-> Get(data, "url", ""),
     summary            |-> Get(data, "summary", ""),
     rating             |-> Rating_from_dict(Get(data, "rating", NoKeys)),
     updated_at         |-> Get(data, "updated_at", ""),
     published_at       |-> Get(data, "published_at", ""),
     trending           |-> Get(data, "trending", FALSE),
     previews           |-> Preview_from_dict(
                               Get(Get(data, "previews", NoKeys),
                                   "icon_with_audio_preview", NoKeys)),
     attributes         |-> Get(data, "attributes", <<>>),
     photo_attributes   |-> Get(data, "photo_attributes", <<>>),
     key_features       |-> Get(data, "key_features", <<>>),
     image_urls         |-> Get(data, "image_urls", <<>>),
     tags               |-> Get(data, "tags", <<>>),
     discounts          |-> Get(data, "discounts", <<>>)]

Product_serialize(self) ==
    [id                 |-> self.id,
     name               |-> self.name,
     description        |-> self.description,
     description_html   |-> self.description_html,
     site               |-> self.site,
     classification     |-> self.classification,
     classification_url |-> self.classification_url,
     price_cents        |-> self.price_cents,
     number_of_sales    |-> self.number_of_sales,
     author_username    |-> self.author_username,
     author_url         |-> self.author_url,
     author_image       |-> self.author_image,
     url                |-> self.url,
     summary            |-> self.summary,
     rating             |-> Rating_serialize(self.rating),
     updated_at         |-> self.updated_at,
     published_at       |-> self.published_at,
     trending           |-> self.trending,
     previews           |-> Preview_serialize(self.previews),
     attributes         |-> self.attributes,
     photo_attributes   |-> self.photo_attributes,
     key_features       |-> self.key_features,
     image_urls         |-> self.image_urls,
     tags               |-> self.tags,
     discounts          |-> self.discounts]

\* Category of product.py: data["name"], data["path"] raise KeyError when absent
Category_from_dict_raises(data) == ~({"name", "path"} \subseteq DOMAIN data)

Category_from_dict(data) ==
    [name           |-> data["name"],
     path           |-> data["path"],
     total_products |-> IF "total_products" \in DOMAIN data
                        THEN Some(data["total_products"]) ELSE None]

Category_serialize(self) ==
    IF self.total_products # None
    THEN [name |-> self.name, path |-> self.path,
          total_products |-> self.total_products[1]]
    ELSE [name |-> self.name, path |-> self.path]

\* Category of __init__.py: name and path only
Cli_Category_from_dict_raises(data) == ~({"name", "path"} \subseteq DOMAIN data)

Cli_Category_from_dict(data) == [name |-> data["name"], path |-> data["path"]]

Cli_Category_serialize(self) == [name |-> self.name, path |-> self.path]

(***************************************************************************)
(* The persistence file.  pickle.dump / pickle.load carry a dict unchanged;*)
(* a file that pickle.load cannot decode, or whose top-level value is no   *)
(* dict, is "garbage".                                                     *)
(***************************************************************************)
FileMissing == [kind |-> "missing"]
FileGarbage == [kind |-> "garbage"]
FileOf(data) == [kind |-> "pickle", data |-> data]

\* ids a product can have
Ids == 0..3

\* str(product_id)
Str(id) == ToString(id)

\* int(product_id) raises ValueError unless the key is a numeral
Int_raises(s) == ~(\E i \in Ids : ToString(i) = s)
IntOf(s) == CHOOSE i \in Ids : ToString(i) = s

(***************************************************************************)
(* Cache: cache.py ("lib") and the copy in __init__.py ("cli").  The two   *)
(* differ in the Category class they use and in the dirty flag.            *)
(***************************************************************************)
CatFromDictRaises(v, data) ==
    IF v = "lib" THEN Category_from_dict_raises(data)
    ELSE Cli_Category_from_dict_raises(data)

CatFromDict(v, data) ==
    IF v = "lib" THEN Category_from_dict(data) ELSE Cli_Category_from_dict(data)

CatSerialize(v, c) ==
    IF v = "lib" THEN Category_serialize(c) ELSE Cli_Category_serialize(c)

\* add_category body: self.categories[site][category.path] = category
Cache_add_category(cats, site, category) ==
    LET c1 == IF ~DictHas(cats, site) THEN DictSet(cats, site, EmptyDict) ELSE cats
    IN  DictSet(c1, site, DictSet(DictGet(c1, site), category.path, category))

\* (mutant) the record is stored beside the one already held under its id
Cache_add_product_appends(prods, product) ==
    Append(prods, [k |-> product.id, v |-> product])

\* add_product body: self.products[product.id] = product
Cache_add_product(prods, product) == DictSet(prods, product.id, product)

\* serialize()
Cache_serialize(v, cats, prods) ==
    [categories |->
        [i \in 1..Len(cats) |->
            [k |-> cats[i].k,
             v |-> [j \in 1..Len(cats[i].v) |->
                       [k |-> cats[i].v[j].k,
                        v |-> CatSerialize(v, cats[i].v[j].v)]]]],
     products |->
        [i \in 1..Len(prods) |->
            [k |-> Str(prods[i].k), v |-> Product_serialize(prods[i].v)]]]

\* save(): how = "ok"; "open" (open() raises, the file is untouched); "dump"
\* (the file was truncated by open() and the write raised).  Every exception
\* is caught.
SaveOutcomes == {"ok", "open", "dump"}

Cache_save(v, cats, prods, f, how) ==
    CASE how = "ok"   -> FileOf(Cache_serialize(v, cats, prods))
      [] how = "open" -> f
      [] how = "dump" -> FileGarbage

\* the inner loop of load(): for name, category_data in categories.items()
RECURSIVE LoadCategories(_, _, _, _)
LoadCategories(v, inner, entries, i) ==
    IF i > Len(entries) THEN [d |-> inner, failed |-> FALSE]
    ELSE IF CatFromDictRaises(v, entries[i].v) THEN [d |-> inner, failed |-> TRUE]
    ELSE LoadCategories(v, DictSet(inner, entries[i].k, CatFromDict(v, entries[i].v)),
                        entries, i + 1)

\* the outer loop of load(): for site, categories in data.get("categories", {})
RECURSIVE LoadSites(_, _, _, _)
LoadSites(v, cats, sites, i) ==
    IF i > Len(sites) THEN [c |-> cats, failed |-> FALSE]
    ELSE LET r == LoadCategories(v, EmptyDict, sites[i].v, 1)
             c1 == DictSet(cats, sites[i].k, r.d)
         IN  IF r.failed THEN [c |-> c1, failed |-> TRUE]
             ELSE LoadSites(v, c1, sites, i + 1)

\* the product loop of load()
RECURSIVE LoadProducts(_, _, _)
LoadProducts(prods, entries, i) ==
    IF i > Len(entries) THEN [p |-> prods, failed |-> FALSE]
    ELSE IF Int_raises(entries[i].k) THEN [p |-> prods, failed |-> TRUE]
    ELSE LoadProducts(DictSet(prods, IntOf(entries[i].k),
                              Product_from_dict(entries[i].v)),
                      entries, i + 1)

\* load(): the cache after the call, and whether an exception was caught
Cache_load(v, cats, prods, f) ==
    CASE f.kind = "missing" -> [categories |-> cats, products |-> prods, failed |-> FALSE]
      [] f.kind = "garbage" -> [categories |-> cats, products |-> prods, failed |-> TRUE]
      [] f.kind = "pickle" ->
            LET s == LoadSites(v, cats, Get(f.data, "categories", EmptyDict), 1)
                p == LoadProducts(prods, Get(f.data, "products", EmptyDict), 1)
            IN  IF s.failed
                THEN [categories |-> s.c, products |-> prods, failed |-> TRUE]
                ELSE [categories |-> s.c, products |-> p.p, failed |-> p.failed]

(***************************************************************************)
(* The values the model draws its inputs from.                             *)
(***************************************************************************)
Sites == {"audiojungle", "themeforest"}

\* matches of the search endpoint
MatchA ==
    [id |-> 1, name |-> "a", site |-> "audiojungle.net", classification |-> "Music",
     price_cents |-> 500, number_of_sales |-> 10,
     rating |-> [rating |-> 45, count |-> 3],
     previews |-> [icon_with_audio_preview |->
                      [icon_url |-> "icon", mp3_id |-> 7, length |-> [minutes |-> 3]]],
     tags |-> <<"loop">>]

MatchB ==
    [id |-> 2, site |-> "audiojungle.net", classification |-> "Music",
     price_cents |-> 1000, number_of_sales |-> 20]

\* item 1 again, fetched later with other values
MatchA2 ==
    [id |-> 1, site |-> "audiojungle.net", classification |-> "Sfx",
     price_cents |-> 300, number_of_sales |-> 5]

MatchC ==
    [id |-> 3, name |-> "c", site |-> "themeforest.net", classification |-> "Music",
     price_cents |-> 700, number_of_sales |-> 1]

\* another item of Music, selling as much as item 2
MatchD ==
    [id |-> 0, name |-> "d", url |-> "u/d", author_username |-> "dee",
     site |-> "audiojungle.net", classification |-> "Music",
     price_cents |-> 250, number_of_sales |-> 20]

Matches == {MatchA, MatchB, MatchA2}

\* categories handed to add_category (product.py)
LibCategories ==
    {[name |-> "Music", path |-> "music", total_products |-> None],
     [name |-> "Music", path |-> "music", total_products |-> Some(5)],
     [name |-> "Sfx", path |-> "sfx", total_products |-> None]}

LibProducts == {Product_from_dict(m) : m \in Matches \cup {MatchC}}

\* persistence files found at start
GoodData ==
    [categories |->
        <<[k |-> "audiojungle",
           v |-> <<[k |-> "music", v |-> [name |-> "Music", path |-> "music"]],
                   [k |-> "sfx", v |-> [name |-> "Sfx", path |-> "sfx"]]>>]>>,
     products |->
        <<[k |-> "3", v |-> Product_serialize(Product_from_dict(MatchC))]>>]

\* the entry of themeforest has no name
BadCategoryData ==
    [categories |->
        <<[k |-> "audiojungle",
           v |-> <<[k |-> "music", v |-> [name |-> "Music", path |-> "music"]]>>],
          [k |-> "themeforest",
           v |-> <<[k |-> "web", v |-> [path |-> "web"]]>>]>>,
     products |->
        <<[k |-> "3", v |-> Product_serialize(Product_from_dict(MatchC))]>>]

\* the second product key is no numeral
BadKeyData ==
    [categories |-> <<>>,
     products |->
        <<[k |-> "3", v |-> Product_serialize(Product_from_dict(MatchC))],
          [k |-> "x", v |-> Product_serialize(Product_from_dict(MatchB))]>>]

\* a category stored under a key that is not its path; load() accepts it
MiskeyedData ==
    [categories |->
        <<[k |-> "audiojungle",
           v |-> <<[k |-> "Music", v |-> [name |-> "Music", path |-> "music"]]>>]>>,
     products |-> <<>>]

Files ==
    {FileMissing, FileGarbage, FileOf(GoodData), FileOf(BadCategoryData),
     FileOf(BadKeyData), FileOf(MiskeyedData)}

(***************************************************************************)
(* History kept beside the program state, for the properties.              *)
(***************************************************************************)
NoFn == [x \in {} |-> 0]

FnSet(f, key, value) ==
    [x \in (DOMAIN f) \cup {key} |-> IF x = key THEN value ELSE f[x]]

Hist0 ==
    [ops         |-> 0,       \* add_category / add_product calls so far
     added       |-> NoFn,    \* id -> the product last given to add_product
     mutated     |-> FALSE,   \* add_category or add_product ran in this process
     fresh       |-> FALSE,   \* nothing ran since load()
     load_failed |-> FALSE,   \* load() caught an exception
     before      |-> [categories |-> EmptyDict, products |-> EmptyDict],
     at_start    |-> [categories |-> EmptyDict, products |-> EmptyDict],
     saved       |-> None,    \* the cache the file was last written from
     writes      |-> 0,       \* times this process opened the file for writing
     save_how    |-> None,    \* outcome of the last save()
     replaced    |-> FALSE,   \* add_product met another record under the same id
     reqlog      |-> <<>>,    \* the search_products calls: [ci, category, page, n],
                              \* n = len(products) returned, -1 until the call returns
     fetched     |-> NoFn,    \* id -> the product last returned by a search
     nsent       |-> 0,       \* requests.get calls of this process
     n429        |-> 0,       \* 429 responses received by the current call
     retries     |-> 0,       \* 429 responses received by this process
     fatal       |-> FALSE,   \* make_envato_api_call ended the process
     nsent_fatal |-> 0,       \* nsent when it did
     head        |-> <<>>,    \* ids of the products category-head echoed, in order
     matched     |-> 0,       \* matches in the bodies the API returned
     upserts     |-> 0]       \* add_product calls made by search_products

(***************************************************************************)
(* CacheSpec: cache.py.  A process constructs the Cache (which loads the   *)
(* file), calls add_category / add_product / maybe_save, and ends with the *)
(* atexit call of maybe_save; the next process finds the file it left.     *)
(***************************************************************************)
\* maybe_save(): the file and the flag after the call
Cache_maybe_save(cats, prods, d, f, how) ==
    IF d
    THEN [file |-> Cache_save("lib", cats, prods, f, how), dirty |-> FALSE,
          saving |-> TRUE]
    ELSE [file |-> f, dirty |-> d, saving |-> FALSE]

\* the flag after add_category / add_product
Cache_mark_dirty(d) == TRUE

CrawlVars == <<args, categories_to_crawl, pages_to_crawl, ci, pi, total_products,
               req, sent, resp, slept, ret, exit_code, out>>

\* what a save() that ran leaves in the history
HistSave(h, cats, prods, saving, how) ==
    IF ~saving THEN h
    ELSE [h EXCEPT
            !.save_how = Some(how),
            !.writes = IF how = "open" THEN @ ELSE @ + 1,
            !.saved = CASE how = "ok"   -> Some([categories |-> cats, products |-> prods])
                        [] how = "open" -> @
                        [] how = "dump" -> None]

\* Cache.__init__
Lib_init ==
    /\ pc = "lib_new"
    /\ LET l == Cache_load("lib", EmptyDict, EmptyDict, file)
       IN  /\ categories' = l.categories
           /\ products' = l.products
           /\ hist' = [hist EXCEPT !.load_failed = l.failed, !.fresh = TRUE,
                                   !.before = [categories |-> EmptyDict,
                                               products |-> EmptyDict]]
    /\ dirty' = FALSE
    /\ pc' = "lib_ready"
    /\ UNCHANGED <<file, CrawlVars>>

Lib_add_category(site, category) ==
    /\ pc = "lib_ready"
    /\ hist.ops < MaxOps
    /\ dirty' = Cache_mark_dirty(dirty)
    /\ categories' = Cache_add_category(categories, site, category)
    /\ hist' = [hist EXCEPT !.ops = @ + 1, !.mutated = TRUE, !.fresh = FALSE]
    /\ UNCHANGED <<file, products, pc, CrawlVars>>

Lib_add_product(product) ==
    /\ pc = "lib_ready"
    /\ hist.ops < MaxOps
    /\ dirty' = Cache_mark_dirty(dirty)
    /\ products' = Cache_add_product(products, product)
    /\ hist' = [hist EXCEPT !.ops = @ + 1, !.mutated = TRUE, !.fresh = FALSE,
                            !.added = FnSet(@, product.id, product),
                            !.replaced = @ \/ (DictHas(products, product.id) /\
                                                DictGet(products, product.id) # product)]
    /\ UNCHANGED <<file, categories, pc, CrawlVars>>

\* maybe_save() called by the program
Lib_maybe_save(how) ==
    /\ pc = "lib_ready"
    /\ LET r == Cache_maybe_save(categories, products, dirty, file, how)
       IN  /\ file' = r.file
           /\ dirty' = r.dirty
           /\ hist' = [HistSave(hist, categories, products, r.saving, how)
                          EXCEPT !.fresh = FALSE]
    /\ UNCHANGED <<categories, products, pc, CrawlVars>>

\* atexit.register(self.maybe_save): the process ends
Lib_atexit(how) ==
    /\ pc = "lib_ready"
    /\ LET r == Cache_maybe_save(categories, products, dirty, file, how)
       IN  /\ file' = r.file
           /\ dirty' = r.dirty
           /\ hist' = [HistSave(hist, categories, products, r.saving, how)
                          EXCEPT !.fresh = FALSE]
    /\ pc' = "lib_done"
    /\ UNCHANGED <<categories, products, CrawlVars>>

\* the next process: a new, empty Cache object
Lib_restart ==
    /\ pc = "lib_done"
    /\ categories' = EmptyDict
    /\ products' = EmptyDict
    /\ dirty' = FALSE
    /\ pc' = "lib_new"
    /\ hist' = [hist EXCEPT !.added = NoFn, !.mutated = FALSE, !.writes = 0,
                            !.replaced = FALSE,
                            !.save_how = None, !.load_failed = FALSE]
    /\ UNCHANGED <<file, CrawlVars>>

CrawlVars0 ==
    /\ args = [cmd |-> "none"]
    /\ categories_to_crawl = <<>>
    /\ pages_to_crawl = <<>>
    /\ ci = 0
    /\ pi = 0
    /\ total_products = 0
    /\ req = None
    /\ sent = <<>>
    /\ resp = None
    /\ slept = <<>>
    /\ ret = None
    /\ exit_code = -1
    /\ out = <<>>

CacheInit ==
    /\ file \in Files
    /\ categories = EmptyDict
    /\ products = EmptyDict
    /\ dirty = FALSE
    /\ pc = "lib_new"
    /\ hist = Hist0
    /\ CrawlVars0

CacheNext ==
    \/ Lib_init
    \/ \E site \in Sites, category \in LibCategories : Lib_add_category(site, category)
    \/ \E product \in LibProducts : Lib_add_product(product)
    \/ \E how \in SaveOutcomes : Lib_maybe_save(how)
    \/ \E how \in SaveOutcomes : Lib_atexit(how)
    \/ Lib_restart

CacheSpec == CacheInit /\ [][CacheNext]_vars

(***************************************************************************)
(* API client: make_envato_api_call (__init__.py).                         *)
(***************************************************************************)
\* time.sleep(60) of the 429 branches without a usable Retry-After
FallbackWait == 60

\* Retry-After values a 429 response carries (None: no such header)
RetryAfterTexts == {"", "soon", "0", "2", "-5", "100000000000000000000"}

RetryAfterHeaders == {None} \cup {Some(t) : t \in RetryAfterTexts}

\* int(retry_after) on those texts; big: more seconds than time.sleep takes
IntTable ==
    {[text |-> "0", val |-> 0, big |-> FALSE],
     [text |-> "2", val |-> 2, big |-> FALSE],
     [text |-> "-5", val |-> -5, big |-> FALSE],
     [text |-> "100000000000000000000", val |-> 0, big |-> TRUE]}

int_raises(text) == ~(\E r \in IntTable : r.text = text)

int(text) == CHOOSE r \in IntTable : r.text = text

\* (mutant) a failure status is swallowed and an empty body returned
HandleResponse_swallows(o) ==
    CASE o.kind = "ok" -> [act |-> "return", body |-> o.body]
      [] o.kind = "429" -> [act |-> "retry", sleep |-> FallbackWait]
      [] o.kind = "status" -> [act |-> "return", body |-> [took |-> 1]]
      [] o.kind \in {"transport", "badjson"} -> [act |-> "exit"]

\* what one response of requests.get makes the loop do:
\*   return body | retry after a sleep | exit (sys.exit(1)) | raise (uncaught)
HandleResponse(o) ==
    CASE o.kind = "ok" -> [act |-> "return", body |-> o.body]
      [] o.kind = "429" ->
            IF o.retry_after = None \/ o.retry_after = Some("")
            THEN [act |-> "retry", sleep |-> FallbackWait]
            ELSE IF int_raises(o.retry_after[1])
            THEN [act |-> "retry", sleep |-> FallbackWait]
            ELSE LET wait_time == int(o.retry_after[1])
                 IN  IF wait_time.big
                     THEN [act |-> "raise"]        \* time.sleep: OverflowError
                     ELSE IF wait_time.val < 0     \* time.sleep: ValueError, caught
                     THEN [act |-> "retry", sleep |-> FallbackWait]
                     ELSE [act |-> "retry", sleep |-> wait_time.val]
      [] o.kind \in {"status", "transport", "badjson"} -> [act |-> "exit"]

\* bodies of a 2xx response of the search endpoint
Bodies ==
    {[took |-> 1],
     [matches |-> <<>>],
     [matches |-> <<MatchA>>],
     [matches |-> <<MatchA, MatchB>>],
     [matches |-> <<MatchB, MatchA2>>]}

Responses ==
    {[kind |-> "ok", body |-> b] : b \in Bodies}
    \cup {[kind |-> "429", retry_after |-> h] : h \in RetryAfterHeaders}
    \cup {[kind |-> "status", code |-> 500], [kind |-> "transport"],
          [kind |-> "badjson"]}

\* the responses a crawl is run against
CrawlResponses ==
    {[kind |-> "ok", body |-> b] : b \in Bodies}
    \cup {[kind |-> "429", retry_after |-> Some("2")],
          [kind |-> "status", code |-> 500]}

\* url, headers and params of a call
Request(api_key, endpoint, params) ==
    [url     |-> "https://api.envato.com/v1/" \o endpoint,
     headers |-> [Authorization |-> "Bearer " \o api_key,
                  User_Agent |-> "envato-scrape/0.1.0"],
     params  |-> params]

\* requests.get(url, headers=headers, params=params) of one loop iteration
WireRequest(r) == r

(***************************************************************************)
(* search_products and _crawl (__init__.py).                               *)
(***************************************************************************)
\* params of search_products (term and sort_by are not given)
SearchParams(site, category, page, sort_direction) ==
    IF category # ""
    THEN [site |-> site \o ".net", page |-> page, category |-> category,
          sort_direction |-> sort_direction]
    ELSE [site |-> site \o ".net", page |-> page, sort_direction |-> sort_direction]

SearchRequest(site, category, page) ==
    Request("key", "discovery/search/search/item",
            SearchParams(site, category, page, "desc"))

\* the products of a response: [] unless the body has "matches"
SearchProducts(data) ==
    IF "matches" \in DOMAIN data
    THEN [i \in 1..Len(data.matches) |-> Product_from_dict(data.matches[i])]
    ELSE <<>>

\* (mutant) the products are collected but not put in the cache
AddAll_forgets(prods, found, i) == prods

\* cache.add_product(product) for each product of the response, in order
RECURSIVE AddAll(_, _, _)
AddAll(prods, found, i) ==
    IF i > Len(found) THEN prods
    ELSE AddAll(Cache_add_product(prods, found[i]), found, i + 1)

\* (mutant) an empty page does not end the category
CrawlAdvance_no_break(n, c, p, ncats, npages) ==
    IF p < npages THEN [ci |-> c, pi |-> p + 1, done |-> FALSE]
    ELSE IF c < ncats THEN [ci |-> c + 1, pi |-> 1, done |-> FALSE]
    ELSE [ci |-> c, pi |-> p, done |-> TRUE]

\* the two for loops of _crawl after a page that returned n products:
\* break on an empty page, else the next page; then the next category
CrawlAdvance(n, c, p, ncats, npages) ==
    IF n # 0 /\ p < npages THEN [ci |-> c, pi |-> p + 1, done |-> FALSE]
    ELSE IF c < ncats THEN [ci |-> c + 1, pi |-> 1, done |-> FALSE]
    ELSE [ci |-> c, pi |-> p, done |-> TRUE]

\* the checks of _crawl before the first request
\*   exit: sys.exit(1) | raise: uncaught KeyError | go: the crawl starts
CrawlSetup(a, cats) ==
    IF a.all_categories /\ a.category # None THEN [result |-> "exit"]
    ELSE IF a.all_categories /\ ~DictHas(cats, a.site) THEN [result |-> "exit"]
    ELSE IF ~a.all_categories /\ a.category = None THEN [result |-> "exit"]
    ELSE IF a.all_pages /\ a.page # None THEN [result |-> "exit"]
    ELSE IF ~a.all_pages /\ a.page = None THEN [result |-> "exit"]
    ELSE IF ~a.all_categories /\ ~DictHas(cats, a.site) THEN [result |-> "raise"]
    ELSE LET all == DictValues(DictGet(cats, a.site))
             category_obj_list == SelectSeq(all, LAMBDA cat : cat.path = a.category[1])
             pages == IF a.all_pages THEN [i \in 1..LastPage |-> i] ELSE <<a.page[1]>>
         IN  IF ~a.all_categories /\ Len(category_obj_list) = 0
             THEN [result |-> "exit"]
             ELSE IF ~a.api_key THEN [result |-> "exit"]     \* check_api_key
             ELSE [result |-> "go",
                   categories_to_crawl |->
                       IF a.all_categories THEN all ELSE <<category_obj_list[1]>>,
                   pages_to_crawl |-> pages]

CrawlArgs ==
    [cmd : {"search-crawl"}, site : Sites,
     category : {None, Some("music"), Some("nope")}, all_categories : BOOLEAN,
     page : {None, Some(1), Some(2)}, all_pages : BOOLEAN, api_key : BOOLEAN]

CallVars0 ==
    /\ sent' = <<>>
    /\ resp' = None
    /\ slept' = <<>>
    /\ ret' = None

\* fetch search-crawl, up to the first request
Crawl(a) ==
    /\ pc = "start"
    /\ args' = a
    /\ LET s == CrawlSetup(a, categories)
       IN  IF s.result # "go"
           THEN /\ pc' = "exiting"
                /\ exit_code' = 1
                /\ UNCHANGED <<categories_to_crawl, pages_to_crawl, ci, pi, req, hist>>
           ELSE /\ categories_to_crawl' = s.categories_to_crawl
                /\ pages_to_crawl' = s.pages_to_crawl
                /\ IF Len(s.categories_to_crawl) = 0
                   THEN /\ pc' = "exiting"
                        /\ exit_code' = 0
                        /\ UNCHANGED <<ci, pi, req, hist>>
                   ELSE /\ pc' = "http"
                        /\ ci' = 1
                        /\ pi' = 1
                        /\ req' = Some(SearchRequest(a.site,
                                           s.categories_to_crawl[1].path,
                                           s.pages_to_crawl[1]))
                        /\ hist' = [hist EXCEPT
                                      !.reqlog = Append(@,
                                          [ci |-> 1,
                                           category |-> s.categories_to_crawl[1].path,
                                           page |-> s.pages_to_crawl[1], n |-> -1])]
                        /\ UNCHANGED exit_code
    /\ total_products' = 0
    /\ CallVars0
    /\ UNCHANGED <<file, categories, products, dirty, out>>

\* one iteration of the while loop of make_envato_api_call
HttpGet(o) ==
    /\ pc = "http"
    /\ o.kind = "429" => hist.retries < MaxRetries
    /\ sent' = Append(sent, WireRequest(req[1]))
    /\ resp' = Some(o)
    /\ LET h == HandleResponse(o)
       IN  /\ ret' = IF h.act = "return" THEN Some(h.body) ELSE ret
           /\ slept' = IF h.act = "retry" THEN Append(slept, h.sleep) ELSE slept
           /\ pc' = CASE h.act = "return" -> "returned"
                      [] h.act = "retry" -> "http"
                      [] OTHER -> "exiting"
           /\ exit_code' = IF h.act \in {"exit", "raise"} THEN 1 ELSE exit_code
           /\ hist' = [hist EXCEPT
                         !.nsent = @ + 1,
                         !.n429 = IF o.kind = "429" THEN @ + 1 ELSE @,
                         !.retries = IF o.kind = "429" THEN @ + 1 ELSE @,
                         !.matched = IF o.kind = "ok" /\ "matches" \in DOMAIN o.body
                                     THEN @ + Len(o.body.matches) ELSE @,
                         !.fatal = (h.act = "exit"),
                         !.nsent_fatal = IF h.act = "exit" THEN hist.nsent + 1 ELSE @]
    /\ UNCHANGED <<file, categories, products, dirty, args, categories_to_crawl,
                   pages_to_crawl, ci, pi, total_products, req, out>>

RECURSIVE FetchAll(_, _, _)
FetchAll(f, found, i) ==
    IF i > Len(found) THEN f
    ELSE FetchAll(FnSet(f, found[i].id, found[i]), found, i + 1)

\* (mutant) the total starts again at every page
TotalAfter_reset(total, found) == Len(found)

\* total_products += len(products)
TotalAfter(total, found) == total + Len(found)

\* the rest of search_products once the call returned, and the loop of _crawl
SearchReturn ==
    /\ pc = "returned"
    /\ args.cmd = "search-crawl"
    /\ LET found == SearchProducts(ret[1])
           nxt == CrawlAdvance(Len(found), ci, pi, Len(categories_to_crawl),
                               Len(pages_to_crawl))
           h1 == [hist EXCEPT !.reqlog[Len(hist.reqlog)].n = Len(found),
                              !.fetched = FetchAll(@, found, 1),
                              !.mutated = @ \/ Len(found) > 0,
                              !.upserts = @ + Len(found),
                              !.n429 = 0]
       IN  /\ products' = AddAll(products, found, 1)
           /\ total_products' = TotalAfter(total_products, found)
           /\ ci' = nxt.ci
           /\ pi' = nxt.pi
           /\ IF nxt.done
              THEN /\ pc' = "exiting"
                   /\ exit_code' = 0
                   /\ hist' = h1
                   /\ UNCHANGED <<req, sent, resp, slept, ret>>
              ELSE /\ pc' = "http"
                   /\ req' = Some(SearchRequest(args.site,
                                      categories_to_crawl[nxt.ci].path,
                                      pages_to_crawl[nxt.pi]))
                   /\ hist' = [h1 EXCEPT
                                 !.reqlog = Append(@,
                                     [ci |-> nxt.ci,
                                      category |-> categories_to_crawl[nxt.ci].path,
                                      page |-> pages_to_crawl[nxt.pi], n |-> -1])]
                   /\ CallVars0
                   /\ UNCHANGED exit_code
    /\ UNCHANGED <<file, categories, dirty, args, categories_to_crawl,
                   pages_to_crawl, out>>

(***************************************************************************)
(* inspect category-sale-count (__init__.py).  Money is kept in cents      *)
(* (the code adds number_of_sales * (price_cents / 100.0) as floats) and   *)
(* a quotient is kept as the fraction [num, den].                          *)
(***************************************************************************)
Frac(n, d) == [num |-> n, den |-> d]

FracLess(a, b) == a.num * b.den < b.num * a.den

\* (mutant) the site of a product is not looked at
RECURSIVE CategoryStats_all_sites(_, _, _, _)
CategoryStats_all_sites(stats, prods, i, site) ==
    IF i > Len(prods) THEN stats
    ELSE LET product == prods[i].v
             category == product.classification
             old == IF DictHas(stats, category) THEN DictGet(stats, category)
                    ELSE [product_count |-> 0, total_sales |-> 0, total_revenue |-> 0]
         IN  CategoryStats_all_sites(
                 DictSet(stats, category,
                     [product_count |-> old.product_count + 1,
                      total_sales |-> old.total_sales + product.number_of_sales,
                      total_revenue |-> old.total_revenue
                          + product.number_of_sales * product.price_cents]),
                 prods, i + 1, site)

\* the loop over cache.products.values(): category_stats
RECURSIVE CategoryStats(_, _, _, _)
CategoryStats(stats, prods, i, site) ==
    IF i > Len(prods) THEN stats
    ELSE LET product == prods[i].v
             category == product.classification
             old == IF DictHas(stats, category) THEN DictGet(stats, category)
                    ELSE [product_count |-> 0, total_sales |-> 0, total_revenue |-> 0]
         IN  IF product.site = site \o ".net"
             THEN CategoryStats(
                      DictSet(stats, category,
                          [product_count |-> old.product_count + 1,
                           total_sales |-> old.total_sales + product.number_of_sales,
                           total_revenue |-> old.total_revenue
                               + product.number_of_sales * product.price_cents]),
                      prods, i + 1, site)
             ELSE CategoryStats(stats, prods, i + 1, site)

\* results.append({...}) for each entry of category_stats
ResultRow(category, stats) ==
    [category |-> category,
     product_count |-> stats.product_count,
     total_sales |-> stats.total_sales,
     average_sales |->
        IF stats.product_count > 0
        THEN Frac(stats.total_sales, stats.product_count) ELSE Frac(0, 1),
     average_revenue |->
        IF stats.product_count > 0
        THEN Frac(stats.total_revenue, 100 * stats.product_count) ELSE Frac(0, 1)]

\* results.sort(key=average_revenue, reverse=True): stable, descending
InsertRow(sorted, row) ==
    LET smaller == {i \in 1..Len(sorted) :
                       FracLess(sorted[i].average_revenue, row.average_revenue)}
        at == IF smaller = {} THEN Len(sorted) + 1
              ELSE CHOOSE i \in smaller : \A j \in smaller : i <= j
    IN  SubSeq(sorted, 1, at - 1) \o <<row>> \o SubSeq(sorted, at, Len(sorted))

RECURSIVE SortRows(_, _, _)
SortRows(sorted, rows, i) ==
    IF i > Len(rows) THEN sorted
    ELSE SortRows(InsertRow(sorted, rows[i]), rows, i + 1)

\* the rows _inspect_category_sale_count echoes
SaleCountRows(prods, site) ==
    LET category_stats == CategoryStats(EmptyDict, prods, 1, site)
        results == [i \in 1..Len(category_stats) |->
                       ResultRow(category_stats[i].k, category_stats[i].v)]
    IN  SortRows(<<>>, results, 1)

\* inspect category-sale-count --site <site>
CategorySaleCount(site) ==
    /\ pc = "start"
    /\ args' = [cmd |-> "category-sale-count", site |-> site]
    /\ out' = SaleCountRows(products, site)
    /\ pc' = "exiting"
    /\ exit_code' = 0
    /\ UNCHANGED <<file, categories, products, dirty, categories_to_crawl,
                   pages_to_crawl, ci, pi, total_products, req, sent, resp, slept,
                   ret, hist>>

(***************************************************************************)
(* inspect category-head (__init__.py).                                    *)
(***************************************************************************)
\* values of --number: click's type=int takes every integer; 10 is the default
HeadNumbers == {-1, 0, 1, 2, 10}

\* values of --category
HeadCategories == {"Music", "Sfx", "music"}

\* the loop over cache.products.values(): filtered_products
FilterProducts(prods, site, category) ==
    SelectSeq(DictValues(prods),
              LAMBDA product : /\ product.site = site \o ".net"
                               /\ product.classification = category)

\* filtered_products.sort(key=number_of_sales, reverse=True): stable, descending
InsertBySales(sorted, product) ==
    LET fewer == {i \in 1..Len(sorted) :
                     sorted[i].number_of_sales < product.number_of_sales}
        at == IF fewer = {} THEN Len(sorted) + 1
              ELSE CHOOSE i \in fewer : \A j \in fewer : i <= j
    IN  SubSeq(sorted, 1, at - 1) \o <<product>> \o SubSeq(sorted, at, Len(sorted))

RECURSIVE SortBySales(_, _, _)
SortBySales(sorted, list, i) ==
    IF i > Len(list) THEN sorted
    ELSE SortBySales(InsertBySales(sorted, list[i]), list, i + 1)

\* list[:number] of Python: a negative number counts from the end
SliceTo(list, number) ==
    IF number >= 0
    THEN SubSeq(list, 1, IF number < Len(list) THEN number ELSE Len(list))
    ELSE SubSeq(list, 1, IF Len(list) + number > 0 THEN Len(list) + number ELSE 0)

\* top_products
TopProducts(prods, site, category, number) ==
    SliceTo(SortBySales(<<>>, FilterProducts(prods, site, category), 1), number)

\* one CSV row of category-head
HeadRow(product) ==
    [url |-> product.url,
     title |-> product.name,
     sales |-> product.number_of_sales,
     price |-> Frac(product.price_cents, 100),
     total_revenue |-> Frac(product.number_of_sales * product.price_cents, 100),
     author_username |-> product.author_username]

\* inspect category-head --site <site> --category <category> -n <number>
CategoryHead(site, category, number) ==
    /\ pc = "start"
    /\ args' = [cmd |-> "category-head", site |-> site, category |-> category,
                number |-> number]
    /\ LET top_products == TopProducts(products, site, category, number)
       IN  /\ out' = [i \in 1..Len(top_products) |-> HeadRow(top_products[i])]
           /\ hist' = [hist EXCEPT
                         !.head = [i \in 1..Len(top_products) |-> top_products[i].id]]
    /\ pc' = "exiting"
    /\ exit_code' = 0
    /\ UNCHANGED <<file, categories, products, dirty, categories_to_crawl,
                   pages_to_crawl, ci, pi, total_products, req, sent, resp, slept,
                   ret>>

\* atexit.register(self.save) of the Cache of __init__.py: the process ends
AtExit(how) ==
    /\ pc = "exiting"
    /\ file' = Cache_save("cli", categories, products, file, how)
    /\ hist' = HistSave(hist, categories, products, TRUE, how)
    /\ pc' = "terminated"
    /\ UNCHANGED <<categories, products, dirty, CrawlVars>>

\* cache = Cache() at import: the Cache has loaded the file
Init ==
    /\ file \in Files
    /\ LET l == Cache_load("cli", EmptyDict, EmptyDict, file)
       IN  /\ categories = l.categories
           /\ products = l.products
           /\ hist = [Hist0 EXCEPT !.load_failed = l.failed,
                                   !.at_start = [categories |-> l.categories,
                                                 products |-> l.products]]
    /\ dirty = FALSE
    /\ pc = "start"
    /\ CrawlVars0

Next ==
    \/ \E a \in CrawlArgs : Crawl(a)
    \/ \E o \in CrawlResponses : HttpGet(o)
    \/ SearchReturn
    \/ \E site \in Sites : CategorySaleCount(site)
    \/ \E how \in SaveOutcomes : AtExit(how)

Spec == Init /\ [][Next]_vars

(***************************************************************************)
(* ReportSpec: category-sale-count and category-head run on the caches     *)
(* that earlier crawls left in the file.                                   *)
(***************************************************************************)
RECURSIVE SeqsUpTo(_, _)
SeqsUpTo(S, n) ==
    IF n = 0 THEN {<<>>}
    ELSE LET shorter == SeqsUpTo(S, n - 1)
         IN  shorter \cup {Append(q, x) : q \in {r \in shorter : Len(r) = n - 1}, x \in S}

\* the products the reports are made from
ReportProducts == LibProducts \cup {Product_from_dict(MatchD)}

ReportFiles ==
    {FileOf(Cache_serialize("cli", EmptyDict, AddAll(EmptyDict, q, 1))) :
        q \in SeqsUpTo(ReportProducts, MaxProducts)}

ReportInit ==
    /\ file \in ReportFiles
    /\ LET l == Cache_load("cli", EmptyDict, EmptyDict, file)
       IN  /\ categories = l.categories
           /\ products = l.products
           /\ hist = [Hist0 EXCEPT !.load_failed = l.failed,
                                   !.at_start = [categories |-> l.categories,
                                                 products |-> l.products]]
    /\ dirty = FALSE
    /\ pc = "start"
    /\ CrawlVars0

ReportNext ==
    \/ \E site \in Sites : CategorySaleCount(site)
    \/ \E site \in Sites, category \in HeadCategories, number \in HeadNumbers :
          CategoryHead(site, category, number)
    \/ \E how \in SaveOutcomes : AtExit(how)

ReportSpec == ReportInit /\ [][ReportNext]_vars

(***************************************************************************)
(* RecordSpec: from_dict followed by serialize, on maps that lack keys.    *)
(***************************************************************************)
\* a match with every key of a Product, none at its default
FullProductData ==
    [id |-> 2, name |-> "n", description |-> "d", description_html |-> "<p>d</p>",
     site |-> "audiojungle.net", classification |-> "Music",
     classification_url |-> "c/music", price_cents |-> 500, number_of_sales |-> 10,
     author_username |-> "au", author_url |-> "u/au", author_image |-> "i/au",
     url |-> "u/n", summary |-> "s", rating |-> [rating |-> 45, count |-> 3],
     updated_at |-> "2024-01-02", published_at |-> "2024-01-01", trending |-> TRUE,
     previews |-> [icon_with_audio_preview |->
                      [icon_url |-> "icon", mp3_url |-> "mp3",
                       mp3_preview_waveform_url |-> "wave",
                       mp3_preview_download_url |-> "down", mp3_id |-> 7,
                       length |-> [hours |-> 1, minutes |-> 3, seconds |-> 9]]],
     attributes |-> <<[name |-> "bpm", value |-> "90"]>>,
     photo_attributes |-> <<[name |-> "w", value |-> "1"]>>,
     key_features |-> <<"k">>, image_urls |-> <<"img">>, tags |-> <<"loop">>,
     discounts |-> <<[percent |-> 10]>>]

FullCategoryData == [name |-> "Music", path |-> "music", total_products |-> 5]

\* data without the keys of removed
Without(data, removed) == [k \in (DOMAIN data) \ removed |-> data[k]]

\* keys removed together, in every combination
RemovedTogether == {"id", "name", "trending", "rating", "previews", "tags"}

\* the calls: the record class, and which keys its map lacks
RecordInputs ==
    {[cls |-> "Product", removed |-> r] :
        r \in (SUBSET RemovedTogether) \cup {{k} : k \in DOMAIN FullProductData}
              \cup {DOMAIN FullProductData}}
    \cup {[cls |-> "Category", removed |-> r] : r \in SUBSET (DOMAIN FullCategoryData)}
    \cup {[cls |-> "CliCategory", removed |-> r] : r \in SUBSET {"name", "path"}}

RecordData(i) ==
    Without(IF i.cls = "Product" THEN FullProductData ELSE FullCategoryData, i.removed)

\* cls.from_dict(data).serialize(): the map, or the KeyError from_dict raises
FromDictSerialize(cls, data) ==
    CASE cls = "Product" ->
            [raised |-> FALSE, map |-> Product_serialize(Product_from_dict(data))]
      [] cls = "Category" ->
            IF Category_from_dict_raises(data) THEN [raised |-> TRUE]
            ELSE [raised |-> FALSE, map |-> Category_serialize(Category_from_dict(data))]
      [] cls = "CliCategory" ->
            IF Cli_Category_from_dict_raises(data) THEN [raised |-> TRUE]
            ELSE [raised |-> FALSE,
                  map |-> Cli_Category_serialize(Cli_Category_from_dict(data))]

RecordInit ==
    /\ file = FileMissing
    /\ categories = EmptyDict
    /\ products = EmptyDict
    /\ dirty = FALSE
    /\ pc = "start"
    /\ hist = Hist0
    /\ \E i \in RecordInputs :
          args = [cmd |-> "from-dict", cls |-> i.cls, removed |-> i.removed,
                  data |-> RecordData(i)]
    /\ categories_to_crawl = <<>>
    /\ pages_to_crawl = <<>>
    /\ ci = 0
    /\ pi = 0
    /\ total_products = 0
    /\ req = None
    /\ sent = <<>>
    /\ resp = None
    /\ slept = <<>>
    /\ ret = None
    /\ exit_code = -1
    /\ out = <<>>

\* the call is made
RecordCall ==
    /\ pc = "start"
    /\ args.cmd = "from-dict"
    /\ LET r == FromDictSerialize(args.cls, args.data)
       IN  IF r.raised
           THEN /\ pc' = "raised"
                /\ out' = out
           ELSE /\ pc' = "done"
                /\ out' = <<r.map>>
    /\ UNCHANGED <<file, categories, products, dirty, args, categories_to_crawl,
                   pages_to_crawl, ci, pi, total_products, req, sent, resp, slept,
                   ret, exit_code, hist>>

RecordNext == RecordCall

RecordSpec == RecordInit /\ [][RecordNext]_vars

(***************************************************************************)
(* ApiSpec: one call of make_envato_api_call against every response.       *)
(***************************************************************************)
ApiRequests ==
    {SearchRequest("audiojungle", "music", 1), SearchRequest("themeforest", "", 2),
     Request("key", "market/categories:audiojungle.json", None)}

\* a caller enters make_envato_api_call(api_key, endpoint, params)
ApiCall(r) ==
    /\ pc = "start"
    /\ args' = [cmd |-> "api-call"]
    /\ req' = Some(r)
    /\ pc' = "http"
    /\ CallVars0
    /\ UNCHANGED <<file, categories, products, dirty, categories_to_crawl,
                   pages_to_crawl, ci, pi, total_products, exit_code, out, hist>>

\* the caller has the body; the command ends normally
ApiReturn ==
    /\ pc = "returned"
    /\ args.cmd = "api-call"
    /\ pc' = "exiting"
    /\ exit_code' = 0
    /\ UNCHANGED <<file, categories, products, dirty, args, categories_to_crawl,
                   pages_to_crawl, ci, pi, total_products, req, sent, resp, slept,
                   ret, out, hist>>

ApiNext ==
    \/ \E r \in ApiRequests : ApiCall(r)
    \/ \E o \in Responses : HttpGet(o)
    \/ ApiReturn
    \/ \E how \in SaveOutcomes : AtExit(how)

ApiSpec == Init /\ [][ApiNext]_vars

\* requests.get returns, and the server does not answer 429 for ever: once
\* MaxRetries 429s were received the answer is another one
ApiFairSpec == ApiSpec /\ WF_vars(\E o \in Responses : HttpGet(o))

(***************************************************************************)
(* Properties of the Cache (checked under CacheSpec).                      *)
(***************************************************************************)
\* C5: add_product is a full-replacement upsert keyed by id: the cache holds
\* exactly one entry per id that was added, equal to the product most
\* recently added under that id, and never two entries under one key.
C5_UpsertReplaces ==
    /\ \A id \in DOMAIN hist.added :
          /\ DictCount(products, id) = 1
          /\ DictGet(products, id) = hist.added[id]
    /\ \A i, j \in 1..Len(products) : products[i].k = products[j].k => i = j

\* C5 witness: id 1 was added, then added again with other field values
C5_Witness ==
    /\ hist.replaced
    /\ 1 \in DOMAIN hist.added
    /\ hist.added[1] = Product_from_dict(MatchA2)
    /\ DictCount(products, 1) = 1

\* C6: a successful save() followed by load() into a fresh, empty Cache yields
\* categories and products equal to those that were saved.
C6_SaveLoadRoundTrip ==
    (pc = "lib_ready" /\ hist.fresh /\ hist.saved # None) =>
        /\ DictEq(categories, hist.saved[1].categories)
        /\ DictEq(products, hist.saved[1].products)

\* C8: a load() that fails leaves categories and products as they were
\* before the call.
C8_LoadAllOrNothing ==
    (pc = "lib_ready" /\ hist.fresh /\ hist.load_failed) =>
        /\ categories = hist.before.categories
        /\ products = hist.before.products

(***************************************************************************)
(* Properties of the API client (checked under ApiSpec).                   *)
(***************************************************************************)
\* C2: make_envato_api_call never surfaces a 429: a 429 response ends neither
\* the call nor the process, and the call that returns has sent the same
\* request once more than it received 429s and returns the body of the
\* first successful response.
C2_RateLimitNeverSurfaces ==
    /\ (resp # None /\ resp[1].kind = "429") => (pc = "http" /\ exit_code = -1)
    /\ pc = "returned" =>
          /\ resp[1].kind = "ok"
          /\ ret = Some(resp[1].body)
          /\ Len(sent) = hist.n429 + 1
          /\ \A i \in 1..Len(sent) : sent[i] = req[1]

\* C3: a non-429 failure status, a transport failure or a body that is not
\* JSON ends the process with a non-zero exit status: no further request is
\* issued and no value is returned to the caller.
C3_FatalEndsProcess ==
    (resp # None /\ resp[1].kind \in {"status", "transport", "badjson"}) =>
        /\ pc \in {"exiting", "terminated"}
        /\ exit_code # 0
        /\ exit_code # -1
        /\ ret = None
        /\ hist.fatal
        /\ hist.nsent = hist.nsent_fatal

\* C3 witness: the process has ended on a failure status that followed a 429
C3_Witness ==
    /\ pc = "terminated"
    /\ resp = Some([kind |-> "status", code |-> 500])
    /\ Len(slept) = 1
    /\ Len(sent) = 2
    /\ exit_code = 1

(***************************************************************************)
(* Properties of the command-line process (checked under Spec).            *)
(***************************************************************************)
Completed ==
    args.cmd = "search-crawl" /\ pc \in {"exiting", "terminated"} /\ exit_code = 0

\* the search requests of the ci-th category to crawl
LogOf(j) == SelectSeq(hist.reqlog, LAMBDA e : e.ci = j)

\* no page of a category is requested after one that returned zero products
NoneAfterEmpty ==
    \A i, k \in 1..Len(hist.reqlog) :
        (i < k /\ hist.reqlog[i].ci = hist.reqlog[k].ci) => hist.reqlog[i].n > 0

\* C1 as stated: in every search-crawl, the requests of each category are
\* pages 1..k, k the first page that returned zero products (or the last
\* page of an all-pages crawl), and nothing is requested after an empty page.
C1_PagesOneToK ==
    /\ NoneAfterEmpty
    /\ Completed =>
          \A j \in 1..Len(categories_to_crawl) :
              LET q == LogOf(j)
              IN  /\ Len(q) >= 1
                  /\ \A n \in 1..Len(q) : q[n].page = n
                  /\ \A n \in 1..(Len(q) - 1) : q[n].n > 0
                  /\ q[Len(q)].n = 0 \/ (args.all_pages => Len(q) = LastPage)

\* the categories and pages the command line asks for
ExpectedCategories ==
    LET all == DictValues(DictGet(hist.at_start.categories, args.site))
    IN  IF args.all_categories THEN all
        ELSE <<all[CHOOSE i \in 1..Len(all) : all[i].path = args.category[1]]>>

ExpectedPages ==
    IF args.all_pages THEN [i \in 1..LastPage |-> i] ELSE <<args.page[1]>>

\* C1 amended: the requests go category by category in order; within a category
\* they are a prefix of the pages asked for (1, 2, ... for --all-pages, the
\* one page p for --page p), none follows a page that returned zero products,
\* and a crawl that completes has, for every category, stopped at its first
\* empty page or at the last page asked for.
C1_CrawlRequests ==
    (args.cmd = "search-crawl" /\ hist.reqlog # <<>>) =>
        /\ NoneAfterEmpty
        /\ hist.reqlog[1].ci = 1
        /\ \A i \in 1..(Len(hist.reqlog) - 1) :
              hist.reqlog[i + 1].ci \in {hist.reqlog[i].ci, hist.reqlog[i].ci + 1}
        /\ \A j \in 1..Len(categories_to_crawl) :
              LET q == LogOf(j)
              IN  /\ Len(q) <= Len(ExpectedPages)
                  /\ \A n \in 1..Len(q) :
                        /\ q[n].page = ExpectedPages[n]
                        /\ q[n].category = ExpectedCategories[j].path
                  /\ Completed =>
                        /\ Len(q) >= 1
                        /\ q[Len(q)].n = 0 \/ Len(q) = Len(ExpectedPages)
        /\ Completed => Len(categories_to_crawl) = Len(ExpectedCategories)

\* C1 witness: an all-pages crawl of two categories has completed; the first
\* returned products on page 1 and none on page 2, and was not asked for page
\* 3; the second was then crawled from page 1 to the last page.
C1_Witness ==
    /\ Completed
    /\ args.all_pages
    /\ Len(categories_to_crawl) = 2
    /\ Len(LogOf(1)) = 2
    /\ LogOf(1)[1].n > 0
    /\ LogOf(1)[2].n = 0
    /\ Len(LogOf(2)) = LastPage
    /\ LogOf(2)[LastPage].n > 0

\* the invocations C4 calls invalid
InvalidCrawl(a, cats) ==
    \/ (a.category # None) = a.all_categories
    \/ (a.page # None) = a.all_pages
    \/ a.all_categories /\ (~DictHas(cats, a.site) \/ DictGet(cats, a.site) = EmptyDict)
    \/ /\ a.category # None
       /\ ~(DictHas(cats, a.site) /\
            \E i \in 1..Len(DictGet(cats, a.site)) :
                DictGet(cats, a.site)[i].v.path = a.category[1])

\* C4: an invalid search-crawl invocation ends in failure with no API request
\* issued and the cache's categories and products unchanged.
C4_ValidationBeforeNetwork ==
    (args.cmd = "search-crawl" /\ InvalidCrawl(args, hist.at_start.categories)) =>
        /\ pc \in {"exiting", "terminated"}
        /\ exit_code # 0
        /\ hist.nsent = 0
        /\ hist.reqlog = <<>>
        /\ categories = hist.at_start.categories
        /\ products = hist.at_start.products

\* C7: a process that exits normally has written the file exactly once if
\* add_category or add_product ran since load, and not at all if none did.
C7_WrittenOnlyIfMutated ==
    (pc = "terminated" /\ exit_code = 0) =>
        /\ ~hist.mutated => hist.writes = 0
        /\ (hist.mutated /\ hist.save_how = Some("ok")) => hist.writes = 1

\* C9: when a fatal API error aborts a crawl, every product returned by the
\* earlier requests is in the cache, and in the file once the exit-time save
\* has written it.
C9_NothingRolledBack ==
    (args.cmd = "search-crawl" /\ hist.fatal) =>
        /\ \A id \in DOMAIN hist.fetched :
              /\ DictHas(products, id)
              /\ DictGet(products, id) = hist.fetched[id]
        /\ (pc = "terminated" /\ hist.save_how = Some("ok")) =>
              /\ file.kind = "pickle"
              /\ \A id \in DOMAIN hist.fetched :
                    /\ DictHas(file.data.products, Str(id))
                    /\ DictGet(file.data.products, Str(id))
                          = Product_serialize(hist.fetched[id])

\* C9 witness: the third request of a crawl failed after two pages of
\* products, and the exit-time save has written the file
C9_Witness ==
    /\ args.cmd = "search-crawl"
    /\ hist.fatal
    /\ pc = "terminated"
    /\ hist.save_how = Some("ok")
    /\ Len(hist.reqlog) = 3
    /\ DOMAIN hist.fetched = {1, 2}
    /\ hist.fetched[1] = Product_from_dict(MatchA2)

(***************************************************************************)
(* Properties of category-sale-count (checked under ReportSpec).           *)
(***************************************************************************)
\* the cached products of the site of the command
SiteProducts == {i \in 1..Len(products) : products[i].v.site = args.site \o ".net"}

GroupOf(category) == {i \in SiteProducts : products[i].v.classification = category}

RECURSIVE SumSales(_)
SumSales(S) ==
    IF S = {} THEN 0
    ELSE LET i == CHOOSE x \in S : TRUE
         IN  products[i].v.number_of_sales + SumSales(S \ {i})

\* sum of number_of_sales * price_cents, in cents
RECURSIVE SumRevenue(_)
SumRevenue(S) ==
    IF S = {} THEN 0
    ELSE LET i == CHOOSE x \in S : TRUE
         IN  products[i].v.number_of_sales * products[i].v.price_cents
                 + SumRevenue(S \ {i})

\* the fraction q equals n / d
FracIs(q, n, d) == q.num * d = n * q.den

RowsMatchGroups ==
    /\ Len(out) = Cardinality({products[i].v.classification : i \in SiteProducts})
    /\ {out[r].category : r \in 1..Len(out)}
          = {products[i].v.classification : i \in SiteProducts}
    /\ \A r \in 1..Len(out) :
          LET g == GroupOf(out[r].category)
          IN  /\ out[r].product_count = Cardinality(g)
              /\ out[r].total_sales = SumSales(g)
              /\ FracIs(out[r].average_sales, SumSales(g), Cardinality(g))
              /\ FracIs(out[r].average_revenue, SumRevenue(g), 100 * Cardinality(g))

\* C10 as stated: one row per classification of the site's products, carrying
\* product_count, total_sales, average_sales, total_revenue and
\* average_revenue; products of other sites contribute to no row.
C10_RowsCarryTotalRevenue ==
    args.cmd = "category-sale-count" =>
        /\ RowsMatchGroups
        /\ \A r \in 1..Len(out) :
              /\ "total_revenue" \in DOMAIN out[r]
              /\ FracIs(out[r].total_revenue, SumRevenue(GroupOf(out[r].category)), 100)

\* C10 amended: one row per classification of the site's products, carrying
\* product_count, total_sales, average_sales = total_sales / product_count and
\* average_revenue = (sum of number_of_sales * price_cents / 100) /
\* product_count, and no total_revenue; products of other sites contribute to
\* no row.
C10_ReportRows ==
    args.cmd = "category-sale-count" =>
        /\ RowsMatchGroups
        /\ \A r \in 1..Len(out) :
              DOMAIN out[r] = {"category", "product_count", "total_sales",
                               "average_sales", "average_revenue"}

\* C10 witness: sales 10 and 20 at 500 and 1000 cents under "Music" give the
\* one row 2, 30, 15.00, 125.00, beside a cached product of another site
C10_Witness ==
    /\ args.cmd = "category-sale-count"
    /\ args.site = "audiojungle"
    /\ Len(products) = 3
    /\ \E i \in 1..Len(products) : products[i].v.site = "themeforest.net"
    /\ Len(out) = 1
    /\ out[1].category = "Music"
    /\ out[1].product_count = 2
    /\ out[1].total_sales = 30
    /\ FracIs(out[1].average_sales, 15, 1)
    /\ FracIs(out[1].average_revenue, 12500, 100)
(***************************************************************************)
(* Properties of category-head (checked under ReportSpec).                 *)
(***************************************************************************)
\* positions in the cache of the products category-head is asked about
Matching ==
    {i \in 1..Len(products) :
        /\ products[i].v.site = args.site \o ".net"
        /\ products[i].v.classification = args.category}

\* the rows are those of the products hist.head, distinct matching products
\* in descending order of sales, none with fewer sales than one left out
HeadIsTopBySales ==
    /\ Len(out) = Len(hist.head)
    /\ \A r \in 1..Len(out) :
          /\ \E i \in Matching : products[i].k = hist.head[r]
          /\ out[r] = HeadRow(DictGet(products, hist.head[r]))
    /\ \A r, t \in 1..Len(out) :
          /\ r < t => out[r].sales >= out[t].sales
          /\ r # t => hist.head[r] # hist.head[t]
    /\ \A i \in Matching :
          (\A r \in 1..Len(out) : hist.head[r] # products[i].k) =>
              \A r \in 1..Len(out) : out[r].sales >= products[i].v.number_of_sales

\* C11: category-head emits at most N rows, for every integer N the command
\* accepts: exactly the first N (all, if fewer exist) of the matching cached
\* products in descending order of number_of_sales.
C11_HeadFirstN ==
    args.cmd = "category-head" =>
        /\ Len(out) <= args.number
        /\ Len(out) = args.number \/ Len(out) = Cardinality(Matching)
        /\ HeadIsTopBySales
(***************************************************************************)
(* Properties of the records (checked under RecordSpec).                   *)
(***************************************************************************)
\* what serialize gives for a field at its default
DefaultPreview ==
    [icon_url |-> "", mp3_url |-> "", mp3_preview_waveform_url |-> "",
     mp3_preview_download_url |-> "", mp3_id |-> 0,
     length |-> [hours |-> 0, minutes |-> 0, seconds |-> 0]]

DefaultOf(key) ==
    CASE key \in {"id", "price_cents", "number_of_sales"} -> 0
      [] key = "trending" -> FALSE
      [] key = "rating" -> [rating |-> 0, count |-> 0]
      [] key = "previews" -> DefaultPreview
      [] key \in {"attributes", "photo_attributes", "key_features", "image_urls",
                  "tags", "discounts"} -> <<>>
      [] OTHER -> ""

\* the map has the default of every key that was removed (total_products,
\* whose default is None, is left out of the map by Category.serialize)
DefaultsForRemoved(map, removed) ==
    \A k \in removed :
        IF k = "total_products" THEN k \notin DOMAIN map
        ELSE k \in DOMAIN map /\ map[k] = DefaultOf(k)

\* C12: from_dict raises no error on a Product or Category map that lacks
\* keys, and serialize of the result has the default value of every key the
\* map lacked.
C12_FromDictTotal ==
    (args.cmd = "from-dict" /\ pc # "start") =>
        /\ pc = "done"
        /\ DefaultsForRemoved(out[1], args.removed)
(***************************************************************************)
(* More properties of the Cache (checked under CacheSpec).                 *)
(***************************************************************************)
\* C13: every Category stored in categories[site] has a path equal to the
\* key under which it is stored, whatever file was loaded and whatever was
\* added and saved since.
C13_PathIsKey ==
    \A s \in 1..Len(categories) :
        \A c \in 1..Len(categories[s].v) :
            categories[s].v[c].v.path = categories[s].v[c].k
(***************************************************************************)
(* More properties of the API client (checked under ApiFairSpec).          *)
(***************************************************************************)
\* the call is in its loop, having received only 429s
InRetryLoop ==
    /\ pc = "http"
    /\ ret = None
    /\ exit_code = -1
    /\ Len(sent) = hist.n429
    /\ Len(slept) = hist.n429

\* C14: the 429 retry loop has no retry limit: after a 429, whatever the
\* number of retries already made, the call has neither returned nor aborted;
\* and, the server eventually answering something other than 429, the call
\* eventually terminates by returning a body or by ending the process.
C14_NoRetryLimit ==
    /\ [](\A n \in 1..MaxRetries :
             (resp # None /\ resp[1].kind = "429" /\ hist.n429 = n) => InRetryLoop)
    /\ (pc = "http") ~> (pc \in {"returned", "exiting", "terminated"})
\* the wait w is the one the Retry-After header h asks for: its value in
\* seconds if it parses as an integer, 60 seconds if it does not or is absent
ParsesAsInteger(text) == text \in {"0", "2", "-5", "100000000000000000000"}

WaitIsHeader(w, h) ==
    IF h = None \/ ~ParsesAsInteger(h[1]) THEN w = 60 ELSE ToString(w) = h[1]

\* C15: between a 429 response and the retry that follows it the call waits
\* exactly once, for the Retry-After value in seconds when that parses as an
\* integer and for 60 seconds when it does not parse or is absent.
C15_WaitIsRetryAfter ==
    (resp # None /\ resp[1].kind = "429") =>
        /\ Len(slept) = hist.n429
        /\ Len(sent) = hist.n429
        /\ Len(slept) > 0
        /\ WaitIsHeader(slept[Len(slept)], resp[1].retry_after)
(***************************************************************************)
(* The dirty flag (checked under CacheSpec).                               *)
(***************************************************************************)
\* C16: the dirty flag tracks unpersisted mutations: whenever the flag is
\* false after add_category or add_product ran, the persistence file holds the
\* cache with every mutation made since load.
C16_CleanMeansWritten ==
    (pc \in {"lib_ready", "lib_done"} /\ hist.mutated /\ ~dirty) =>
        file = FileOf(Cache_serialize("lib", categories, products))

(***************************************************************************)
(* The total of a crawl (checked under Spec).                              *)
(***************************************************************************)
RECURSIVE SumReturned(_, _)
SumReturned(log, i) ==
    IF i > Len(log) THEN 0 ELSE log[i].n + SumReturned(log, i + 1)

\* C17: the total a completed search-crawl reports is the number of products
\* it added to the cache: the sum, over every page request of every crawled
\* category, of the matches returned and upserted.
C17_TotalIsSumOfPages ==
    Completed =>
        /\ total_products = SumReturned(hist.reqlog, 1)
        /\ total_products = hist.matched
        /\ total_products = hist.upserts

\* C17 witness: a crawl of two categories has completed; the first returned
\* two products and then an empty page, the second returned more, and the
\* total counts the pages of both
C17_Witness ==
    /\ Completed
    /\ Len(categories_to_crawl) = 2
    /\ Len(LogOf(1)) = 2
    /\ LogOf(1)[1].n = 2
    /\ LogOf(1)[2].n = 0
    /\ Len(LogOf(2)) >= 2
    /\ LogOf(2)[1].n = 1
    /\ LogOf(2)[2].n = 2
    /\ total_products = 5
====
